---- MODULE Spec2Model ----
(***************************************************************************)
(* Model of verify_setup.py: the SetupVerifier object (its four counters   *)
(* and lists), its methods check_item, warn_item, check_python_version,    *)
(* check_virtual_environment, print_summary, run_all_checks, and main().   *)
(*                                                                         *)
(* Two specifications share the variables:                                 *)
(*   Spec     main() running run_all_checks over the fixed check sequence; *)
(*   ApiSpec  a caller that constructs a SetupVerifier and calls           *)
(*            check_item / warn_item / check_virtual_environment in any    *)
(*            order, with check functions of every outcome, and then       *)
(*            print_summary.                                               *)
(*                                                                         *)
(* A check function can return, raise an Exception, raise an Exception     *)
(* whose __str__ raises in turn, or be left by a KeyboardInterrupt, a      *)
(* SystemExit or another BaseException.  A KeyboardInterrupt can also      *)
(* arrive between the statements of main, inside print_summary and inside  *)
(* the except clauses of main; os.getcwd() in main can raise an OSError.   *)
(* print() itself is taken to succeed; of the printed text only the summary block *)
(* is kept as state: which of its parts were printed and from what values. *)
(* success_count / total_checks * 100 is a double in the source.  The      *)
(* comparisons against 90 and 75 are modelled on the exact rational: the   *)
(* division is correctly rounded, so 9/10 and 3/4 give exactly 90.0 and    *)
(* 75.0, and every other rate is further from a threshold than the         *)
(* rounding error.  The text of the rate ("{success_rate:.1f}") depends on *)
(* the rounding of the double and is not modelled; the summary records     *)
(* only that the line was printed.                                         *)
(***************************************************************************)
EXTENDS Integers, Sequences, FiniteSets, TLC

VARIABLES errors, warnings, success_count, total_checks,
          version, venv, pc, executed, summary, call, ret, exit_code, n_calls,
          success

vars == <<errors, warnings, success_count, total_checks,
          version, venv, pc, executed, summary, call, ret, exit_code, n_calls,
          success>>

verifier == <<errors, warnings, success_count, total_checks>>

\* ---------------------------------------------------------------- bounds
MaxMajor == 4
MaxMinor == 11
MaxChecks == 10
MaxWarnings == 2

\* ------------------------------------------------------ program constants
RequiredMajor == 3
RequiredMinor == 10
TopTierRate == 90
MiddleTierRate == 75

Versions == (0..MaxMajor) \X (0..MaxMinor)

ExcMessages == {"boom"}

VenvWarning == "Not running in virtual environment (recommended but not required)"

\* The six check_item calls of run_all_checks, in source order.
Items ==
  << [description |-> "File write permissions",           fn |-> "check_file_permissions"],
     [description |-> "Essential packages installed",     fn |-> "check_essential_packages"],
     [description |-> "Data manipulation (NumPy/Pandas)", fn |-> "check_data_manipulation"],
     [description |-> "Visualization (Matplotlib)",       fn |-> "check_visualization"],
     [description |-> "Network connectivity (PyPI)",      fn |-> "check_network_connectivity"],
     [description |-> "AI Security simulation",           fn |-> "run_security_simulation"] >>

NumItems == Len(Items)

\* Every check run_all_checks invokes, in the declared order.
CheckOrder ==
  <<"check_python_version", "check_virtual_environment">>
    \o [i \in 1..NumItems |-> Items[i].fn]

\* What a check function can do when check_item invokes it:
\*   truthy, falsy      it returns;
\*   raise              it raises an Exception, str() of which is msg;
\*   raise_unprintable  it raises an Exception whose __str__ raises an
\*                      Exception that can be printed;
\*   raise_unprintable_twice
\*                      it raises an Exception whose __str__ raises an
\*                      Exception whose __str__ raises as well;
\*   interrupt          a KeyboardInterrupt leaves it;
\*   system_exit        a SystemExit leaves it;
\*   base_exception     another BaseException that is not an Exception
\*                      (a GeneratorExit, a class derived from
\*                      BaseException) leaves it.
\* KeyboardInterrupt, SystemExit and the other BaseExceptions are not
\* Exceptions and pass every "except Exception".  check_file_permissions imports nothing and catches
\* every Exception.  check_package_import catches only ImportError, so
\* whatever else an import raises leaves check_essential_packages.  The
\* three smoke tests import packages inside "except Exception: return
\* False".  run_security_simulation does the same but formats the exception
\* in its except clause, which lets an error of __str__ out.
CheckOutcomes(fn) ==
  CASE fn = "check_file_permissions" ->
         {"truthy", "falsy", "interrupt"}
    [] fn \in {"check_essential_packages", "run_security_simulation"} ->
         {"truthy", "falsy", "raise", "raise_unprintable",
          "raise_unprintable_twice", "interrupt", "system_exit", "base_exception"}
    [] OTHER ->
         {"truthy", "falsy", "interrupt", "system_exit", "base_exception"}

\* A check function handed to check_item by an arbitrary caller.
AnyOutcome ==
  {"truthy", "falsy", "raise", "raise_unprintable", "raise_unprintable_twice",
   "interrupt", "system_exit", "base_exception"}

\* The codes a SystemExit raised under a check can carry.
SystemExitCodes == {0, 3}

\* The status of a process that ends with an uncaught KeyboardInterrupt:
\* 1 from the traceback exit of older interpreters, 130 (death by SIGINT)
\* from Python 3.8 on.
UncaughtInterruptStatus == {1, 130}

\* The status of a process that ends with any other uncaught exception.
UncaughtErrorStatus == {1}

NoCall ==
  [op |-> "none", at |-> "none", desc |-> "", outcome |-> "none", msg |-> "", k |-> 0]
NoRet == [op |-> "none", value |-> "None", raised |-> "none"]
NoSummary ==
  [called |-> FALSE, completed |-> FALSE, successful |-> -1, total |-> -1,
   rate_printed |-> FALSE, warnings_shown |-> <<>>, errors_shown |-> <<>>,
   no_errors |-> FALSE, verdicts |-> <<>>]

At(stmt, k, desc) == [stmt |-> stmt, k |-> k, desc |-> desc]

\* ------------------------------------------------------ SetupVerifier

\* __init__
SetupVerifier_init ==
  /\ errors = <<>>
  /\ warnings = <<>>
  /\ success_count = 0
  /\ total_checks = 0

\* check_item, up to the invocation of check_function.
check_item_call ==
  total_checks' = total_checks + 1

\* f"{description} - {e}"
FormatError(description, msg) == description \o " - " \o msg

\* check_item, from the result of check_function to its return.  In the
\* except clause the print of line 60 formats the exception before line 61
\* appends: an error of __str__ leaves check_item with errors untouched,
\* and that error can be unprintable itself.
check_item_finish(description, outcome, msg) ==
  /\ UNCHANGED <<warnings, total_checks>>
  /\ CASE outcome = "truthy" ->
            /\ success_count' = success_count + 1
            /\ UNCHANGED errors
            /\ ret' = [op |-> "check_item", value |-> "True", raised |-> "none"]
       [] outcome = "falsy" ->
            /\ errors' = Append(errors, description)
            /\ UNCHANGED success_count
            /\ ret' = [op |-> "check_item", value |-> "False", raised |-> "none"]
       [] outcome = "raise" ->
            /\ errors' = Append(errors, FormatError(description, msg))
            /\ UNCHANGED success_count
            /\ ret' = [op |-> "check_item", value |-> "False", raised |-> "none"]
       [] outcome = "raise_unprintable" ->
            /\ UNCHANGED <<errors, success_count>>
            /\ ret' = [op |-> "check_item", value |-> "None", raised |-> "Exception"]
       [] outcome = "interrupt" ->
            /\ UNCHANGED <<errors, success_count>>
            /\ ret' = [op |-> "check_item", value |-> "None",
                       raised |-> "KeyboardInterrupt"]
       [] outcome = "raise_unprintable_twice" ->
            /\ UNCHANGED <<errors, success_count>>
            /\ ret' = [op |-> "check_item", value |-> "None",
                       raised |-> "UnprintableException"]
       [] outcome = "system_exit" ->
            /\ UNCHANGED <<errors, success_count>>
            /\ ret' = [op |-> "check_item", value |-> "None", raised |-> "SystemExit"]
       [] outcome = "base_exception" ->
            /\ UNCHANGED <<errors, success_count>>
            /\ ret' = [op |-> "check_item", value |-> "None",
                       raised |-> "BaseException"]

\* Variant: a warning is also counted as a check.
warn_item_counted(description) ==
  /\ warnings' = Append(warnings, description)
  /\ total_checks' = total_checks + 1
  /\ UNCHANGED <<errors, success_count>>

\* warn_item
warn_item(description) ==
  /\ warnings' = Append(warnings, description)
  /\ UNCHANGED <<errors, success_count, total_checks>>

\* check_python_version: version.major >= 3 and version.minor >= 10
check_python_version(v) ==
  v[1] >= RequiredMajor /\ v[2] >= RequiredMinor

\* check_virtual_environment: warns when no indicator is set; returns True.
check_virtual_environment ==
  /\ IF venv
       THEN UNCHANGED verifier
       ELSE warn_item(VenvWarning)
  /\ ret' = [op |-> "check_virtual_environment", value |-> "True", raised |-> "none"]

\* Variant: the top tier needs a rate above 90.
Verdict_strict(s, t) ==
  IF 100 * s > TopTierRate * t
    THEN <<"EXCELLENT">>
    ELSE IF 100 * s >= MiddleTierRate * t
           THEN <<"GOOD">>
           ELSE <<"ATTENTION">>

\* success_rate >= 90 / elif success_rate >= 75 / else, with
\* success_rate = (success_count / total_checks) * 100; the tier lines printed.
Verdict(s, t) ==
  IF 100 * s >= TopTierRate * t
    THEN <<"EXCELLENT">>
    ELSE IF 100 * s >= MiddleTierRate * t
           THEN <<"GOOD">>
           ELSE <<"ATTENTION">>

\* print_summary: the division comes first and has no guard.
print_summary ==
  /\ UNCHANGED verifier
  /\ IF total_checks = 0
       THEN /\ summary' = [NoSummary EXCEPT !.called = TRUE]
            /\ ret' = [op |-> "print_summary", value |-> "None",
                       raised |-> "ZeroDivisionError"]
       ELSE /\ summary' =
                 [called |-> TRUE, completed |-> TRUE,
                  successful |-> success_count, total |-> total_checks,
                  rate_printed |-> TRUE,
                  warnings_shown |-> warnings, errors_shown |-> errors,
                  no_errors |-> (Len(errors) = 0),
                  verdicts |-> Verdict(success_count, total_checks)]
            /\ ret' = [op |-> "print_summary", value |-> "None", raised |-> "none"]

\* The parts of print_summary a KeyboardInterrupt can fall between: the
\* header, the line of counts, the warnings, the errors (or "No errors
\* found"), the verdict; the closing rule is the last print.
SummaryStages == {"header", "counts", "warnings", "errors", "verdict"}

\* How many entries of the list a stage can have printed.
StageEntries(stage) ==
  CASE stage = "warnings" -> 0..Len(warnings)
    [] stage = "errors" -> 0..Len(errors)
    [] OTHER -> {0}

\* print_summary cut short by a KeyboardInterrupt after the prints of stage,
\* n entries into the list of that stage.  Nothing after the header is
\* reached when total_checks is 0.
print_summary_interrupted(stage, n) ==
  /\ stage = "header" \/ total_checks > 0
  /\ UNCHANGED verifier
  /\ summary' =
       [called |-> TRUE, completed |-> FALSE,
        successful |-> IF stage = "header" THEN -1 ELSE success_count,
        total |-> IF stage = "header" THEN -1 ELSE total_checks,
        rate_printed |-> (stage # "header"),
        warnings_shown |->
          CASE stage \in {"header", "counts"} -> <<>>
            [] stage = "warnings" -> SubSeq(warnings, 1, n)
            [] OTHER -> warnings,
        errors_shown |->
          CASE stage = "errors" -> SubSeq(errors, 1, n)
            [] stage = "verdict" -> errors
            [] OTHER -> <<>>,
        no_errors |-> (stage \in {"errors", "verdict"} /\ Len(errors) = 0),
        verdicts |-> IF stage = "verdict"
                       THEN Verdict(success_count, total_checks)
                       ELSE <<>>]
  /\ ret' = [op |-> "print_summary", value |-> "None",
             raised |-> "KeyboardInterrupt"]

\* Variant: warnings fail the run too.
run_all_checks_result_no_warnings == Len(errors) = 0 /\ Len(warnings) = 0

\* run_all_checks: return len(self.errors) == 0
run_all_checks_result == Len(errors) = 0

\* main: sys.exit(0 if success else 1)
main_exit(ok) == IF ok THEN 0 ELSE 1

\* main: both except clauses end in sys.exit(1)
main_except(raised) ==
  CASE raised = "KeyboardInterrupt" -> 1
    [] OTHER -> 1

PyBool(b) == IF b THEN "True" ELSE "False"

ResultOf(outcome) ==
  CASE outcome = "truthy" -> "True"
    [] outcome = "falsy" -> "False"
    [] outcome = "raise" -> "raised"
    [] outcome = "raise_unprintable" -> "raised"
    [] outcome = "interrupt" -> "interrupted"
    [] outcome = "raise_unprintable_twice" -> "raised"
    [] outcome = "system_exit" -> "exited"
    [] outcome = "base_exception" -> "escaped"

Exited == At("exited", 0, "")

\* Where run_all_checks goes after check_item number k has returned.
AfterItem(k) ==
  IF k < NumItems
    THEN At("check_item", k + 1, Items[k + 1].description)
    ELSE At("print_summary", 0, "")

\* The process has ended with an exception that nothing caught.
Uncaught == At("uncaught", 0, "")

\* What leaves run_all_checks reaches main: a KeyboardInterrupt and an
\* Exception enter their except clause, a SystemExit passes both and ends
\* the process with its own code, another BaseException passes both and
\* ends the process uncaught.
Continue(next) ==
  CASE ret'.raised = "none" ->
         /\ pc' = next
         /\ UNCHANGED exit_code
    [] ret'.raised = "KeyboardInterrupt" ->
         /\ pc' = At("except_KeyboardInterrupt", 0, "")
         /\ UNCHANGED exit_code
    [] ret'.raised = "SystemExit" ->
         /\ pc' = Exited
         /\ exit_code' \in SystemExitCodes
    [] ret'.raised = "BaseException" ->
         /\ pc' = Uncaught
         /\ exit_code' \in UncaughtErrorStatus
    [] OTHER ->
         /\ pc' = At("except_Exception", 0, "")
         /\ UNCHANGED exit_code

\* ------------------------------------------------ main(): the program

Init ==
  /\ SetupVerifier_init
  /\ version \in Versions
  /\ venv \in BOOLEAN
  /\ pc = At("check_python_version", 0, "")
  /\ executed = <<>>
  /\ summary = NoSummary
  /\ call = NoCall
  /\ ret = NoRet
  /\ exit_code = -1
  /\ n_calls = 0
  /\ success = "unset"

\* self.check_python_version(): called directly, its result is dropped.
RunCheckPythonVersion ==
  /\ pc.stmt = "check_python_version"
  /\ LET r == PyBool(check_python_version(version))
     IN  /\ executed' = Append(executed, [name |-> "check_python_version", result |-> r])
         /\ ret' = [op |-> "check_python_version", value |-> r, raised |-> "none"]
  /\ call' = [op |-> "check_python_version", at |-> pc.stmt, desc |-> "",
              outcome |-> "return", msg |-> "", k |-> 0]
  /\ pc' = At("check_virtual_environment", 0, "")
  /\ UNCHANGED <<verifier, version, venv, summary, exit_code, n_calls, success>>

\* self.check_virtual_environment(): called directly.
RunCheckVirtualEnvironment ==
  /\ pc.stmt = "check_virtual_environment"
  /\ check_virtual_environment
  /\ executed' = Append(executed, [name |-> "check_virtual_environment",
                                   result |-> ret'.value])
  /\ call' = [op |-> "check_virtual_environment", at |-> pc.stmt, desc |-> "",
              outcome |-> "return", msg |-> "", k |-> 0]
  /\ pc' = At("check_item", 1, Items[1].description)
  /\ UNCHANGED <<version, venv, summary, exit_code, n_calls, success>>

\* self.check_item(description, fn): entry, up to the call of fn.
RunCheckItemCall ==
  /\ pc.stmt = "check_item"
  /\ check_item_call
  /\ n_calls' = n_calls + 1
  /\ executed' = Append(executed, [name |-> Items[pc.k].fn, result |-> "pending"])
  /\ call' = [op |-> "check_item", at |-> "check_function", desc |-> pc.desc,
              outcome |-> "pending", msg |-> "", k |-> pc.k]
  /\ pc' = At("check_function", pc.k, pc.desc)
  /\ UNCHANGED <<errors, warnings, success_count, version, venv, summary,
                 ret, exit_code, success>>

\* fn returns or raises; check_item records the result and returns.
RunCheckItemReturn ==
  /\ pc.stmt = "check_function"
  /\ \E o \in CheckOutcomes(Items[pc.k].fn) :
       \E m \in (IF o = "raise" THEN ExcMessages ELSE {""}) :
         /\ check_item_finish(pc.desc, o, m)
         /\ call' = [call EXCEPT !.outcome = o, !.msg = m]
         /\ executed' = [executed EXCEPT ![Len(executed)].result = ResultOf(o)]
  /\ Continue(AfterItem(pc.k))
  /\ UNCHANGED <<version, venv, summary, n_calls, success>>

\* self.print_summary()
RunPrintSummary ==
  /\ pc.stmt = "print_summary"
  /\ print_summary
  /\ call' = [op |-> "print_summary", at |-> pc.stmt, desc |-> "",
              outcome |-> "return", msg |-> "", k |-> 0]
  /\ Continue(At("return", 0, ""))
  /\ UNCHANGED <<version, venv, executed, n_calls, success>>

\* Ctrl-C inside self.print_summary(): part of the summary is on the screen
\* when main's except KeyboardInterrupt exits.
RunPrintSummaryInterrupted ==
  /\ pc.stmt = "print_summary"
  /\ \E stage \in SummaryStages :
       \E n \in StageEntries(stage) :
         print_summary_interrupted(stage, n)
  /\ call' = [op |-> "print_summary", at |-> pc.stmt, desc |-> "",
              outcome |-> "interrupt", msg |-> "", k |-> 0]
  /\ Continue(At("return", 0, ""))
  /\ UNCHANGED <<version, venv, executed, n_calls, success>>

\* success = verifier.run_all_checks(), with return len(self.errors) == 0
RunReturn ==
  /\ pc.stmt = "return"
  /\ ret' = [op |-> "run_all_checks", value |-> PyBool(run_all_checks_result),
             raised |-> "none"]
  /\ success' = ret'.value
  /\ pc' = At("exit", 0, "")
  /\ UNCHANGED <<verifier, version, venv, executed, summary, call, exit_code, n_calls>>

\* the prints of main succeed, then sys.exit(0 if success else 1)
MainExit ==
  /\ pc.stmt = "exit"
  /\ exit_code' = main_exit(success = "True")
  /\ pc' = Exited
  /\ UNCHANGED <<verifier, version, venv, executed, summary, call, ret, n_calls,
                 success>>

\* os.getcwd() in the third print of main raises an OSError (the current
\* directory is gone): sys.exit(0 if success else 1) is not reached and
\* control goes to except Exception.
MainGetcwdRaises ==
  /\ pc.stmt = "exit"
  /\ call' = [op |-> "os.getcwd", at |-> pc.stmt, desc |-> "",
              outcome |-> "raise", msg |-> "", k |-> 0]
  /\ ret' = [op |-> "os.getcwd", value |-> "None", raised |-> "Exception"]
  /\ pc' = At("except_Exception", 0, "")
  /\ UNCHANGED <<verifier, version, venv, executed, summary, exit_code, n_calls,
                 success>>

\* Ctrl-C while main is outside a check function and outside print_summary:
\* control goes to except KeyboardInterrupt.  Inside
\* check_virtual_environment it can come after warn_item has appended the
\* warning.
MainKeyboardInterrupt ==
  /\ pc.stmt \in {"check_python_version", "check_virtual_environment",
                  "check_item", "print_summary", "return", "exit"}
  /\ call' = [op |-> "main", at |-> pc.stmt, desc |-> pc.desc,
              outcome |-> "interrupt", msg |-> "", k |-> pc.k]
  /\ ret' = [op |-> "main", value |-> "None", raised |-> "KeyboardInterrupt"]
  /\ pc' = At("except_KeyboardInterrupt", 0, "")
  /\ \/ UNCHANGED verifier
     \/ /\ pc.stmt = "check_virtual_environment"
        /\ ~venv
        /\ warn_item(VenvWarning)
  /\ UNCHANGED <<version, venv, executed, summary, exit_code, n_calls, success>>

\* An except clause of main prints its message and calls sys.exit(1).  The
\* message of except Exception formats the exception, which must be
\* printable for the clause to get that far.
MainExceptExit ==
  /\ pc.stmt \in {"except_KeyboardInterrupt", "except_Exception"}
  /\ pc.stmt = "except_Exception" => ret.raised # "UnprintableException"
  /\ exit_code' = main_except(IF pc.stmt = "except_KeyboardInterrupt"
                                THEN "KeyboardInterrupt" ELSE "Exception")
  /\ pc' = Exited
  /\ UNCHANGED <<verifier, version, venv, executed, summary, call, ret, n_calls, success>>

\* Ctrl-C during the print of an except clause of main: it is raised inside
\* the handler, nothing catches it, sys.exit(1) is not reached.
MainExceptInterrupted ==
  /\ pc.stmt \in {"except_KeyboardInterrupt", "except_Exception"}
  /\ ret' = [op |-> pc.stmt, value |-> "None", raised |-> "KeyboardInterrupt"]
  /\ exit_code' \in UncaughtInterruptStatus
  /\ pc' = Uncaught
  /\ UNCHANGED <<verifier, version, venv, executed, summary, call, n_calls, success>>

\* except Exception as e: the print formats {e} and e is unprintable.  The
\* error of its __str__ is raised inside the clause, nothing catches it,
\* sys.exit(1) is not reached.
MainExceptUnprintable ==
  /\ pc.stmt = "except_Exception"
  /\ ret.raised = "UnprintableException"
  /\ ret' = [op |-> pc.stmt, value |-> "None", raised |-> "Exception"]
  /\ exit_code' \in UncaughtErrorStatus
  /\ pc' = Uncaught
  /\ UNCHANGED <<verifier, version, venv, executed, summary, call, n_calls, success>>

Next ==
  \/ RunCheckPythonVersion
  \/ RunCheckVirtualEnvironment
  \/ RunCheckItemCall
  \/ RunCheckItemReturn
  \/ RunPrintSummary
  \/ RunPrintSummaryInterrupted
  \/ RunReturn
  \/ MainExit
  \/ MainGetcwdRaises
  \/ MainKeyboardInterrupt
  \/ MainExceptExit
  \/ MainExceptInterrupted
  \/ MainExceptUnprintable

Spec == Init /\ [][Next]_vars

\* ------------------------------- a caller of the SetupVerifier methods

ApiDescriptions == {Items[1].description}
ApiWarnings == {VenvWarning}

\* verifier = SetupVerifier().  The methods this caller uses do not read the
\* interpreter version, which stays at the required one.
ApiInit ==
  /\ SetupVerifier_init
  /\ version = <<RequiredMajor, RequiredMinor>>
  /\ venv \in BOOLEAN
  /\ pc = At("client", 0, "")
  /\ executed = <<>>
  /\ summary = NoSummary
  /\ call = NoCall
  /\ ret = NoRet
  /\ exit_code = -1
  /\ n_calls = 0
  /\ success = "unset"

\* verifier.check_item(d, fn): entry, up to the call of fn.
ApiCheckItemCall ==
  /\ pc.stmt = "client"
  /\ n_calls < MaxChecks
  /\ \E d \in ApiDescriptions :
       /\ call' = [op |-> "check_item", at |-> "check_function", desc |-> d,
                   outcome |-> "pending", msg |-> "", k |-> 0]
       /\ pc' = At("check_function", 0, d)
  /\ check_item_call
  /\ n_calls' = n_calls + 1
  /\ UNCHANGED <<errors, warnings, success_count, version, venv, executed,
                 summary, ret, exit_code, success>>

\* fn returns or raises; check_item records the result and returns, or lets
\* a KeyboardInterrupt, a SystemExit, another BaseException or the error of
\* an unprintable exception through to the caller, which stops.
ApiCheckItemReturn ==
  /\ pc.stmt = "check_function"
  /\ \E o \in AnyOutcome :
       \E m \in (IF o = "raise" THEN ExcMessages ELSE {""}) :
         /\ check_item_finish(pc.desc, o, m)
         /\ call' = [op |-> "check_item", at |-> "check_function", desc |-> pc.desc,
                     outcome |-> o, msg |-> m, k |-> 0]
  /\ pc' = IF ret'.raised = "none" THEN At("client", 0, "") ELSE Exited
  /\ UNCHANGED <<version, venv, executed, summary, exit_code, n_calls, success>>

\* verifier.warn_item(d), by the caller or by a check function that
\* check_item is running.
ApiWarnItem ==
  /\ pc.stmt \in {"client", "check_function"}
  /\ Len(warnings) < MaxWarnings
  /\ \E d \in ApiWarnings :
       /\ warn_item(d)
       /\ call' = [op |-> "warn_item", at |-> pc.stmt, desc |-> d,
                   outcome |-> "return", msg |-> "", k |-> 0]
  /\ ret' = [op |-> "warn_item", value |-> "None", raised |-> "none"]
  /\ UNCHANGED <<version, venv, pc, executed, summary, exit_code, n_calls, success>>

\* verifier.check_virtual_environment(), by the caller or as (part of) a
\* check function that check_item is running.
ApiCheckVirtualEnvironment ==
  /\ pc.stmt \in {"client", "check_function"}
  /\ venv \/ Len(warnings) < MaxWarnings
  /\ check_virtual_environment
  /\ call' = [op |-> "check_virtual_environment", at |-> pc.stmt, desc |-> "",
              outcome |-> "return", msg |-> "", k |-> 0]
  /\ UNCHANGED <<version, venv, pc, executed, summary, exit_code, n_calls, success>>

\* verifier.print_summary(); the caller stops after it.  This caller is
\* interrupted only inside a check function.
ApiPrintSummary ==
  /\ pc.stmt = "client"
  /\ print_summary
  /\ call' = [op |-> "print_summary", at |-> pc.stmt, desc |-> "",
              outcome |-> "return", msg |-> "", k |-> 0]
  /\ pc' = Exited
  /\ UNCHANGED <<version, venv, executed, exit_code, n_calls, success>>

ApiNext ==
  \/ ApiCheckItemCall
  \/ ApiCheckItemReturn
  \/ ApiWarnItem
  \/ ApiCheckVirtualEnvironment
  \/ ApiPrintSummary

ApiSpec == ApiInit /\ [][ApiNext]_vars

\* ------------------------------------------------------------ properties

ExecutedNames == [i \in 1..Len(executed) |-> executed[i].name]

IsPrefix(s, t) ==
  /\ Len(s) <= Len(t)
  /\ \A i \in 1..Len(s) : s[i] = t[i]

\* A KeyboardInterrupt has been raised in the try block of main.
Interrupted == call.outcome = "interrupt"

\* A check function was left by a KeyboardInterrupt, a SystemExit or
\* another BaseException that is not an Exception.
Aborted == call.outcome \in {"interrupt", "system_exit", "base_exception"}

\* The process has ended.
Ended == pc.stmt \in {"exited", "uncaught"}

\* run_all_checks has returned and main has reached its sys.exit.
Completed == pc.stmt = "exited" /\ ret.op = "run_all_checks"

CheckStatements ==
  {"check_python_version", "check_virtual_environment", "check_item",
   "check_function"}

\* C1: every check_item call adds exactly 1 to total_checks whatever its
\* outcome, and after N calls whose check functions returned truthy, returned
\* falsy or raised an error (with warn_item calls in between)
\* total_checks = N and success_count + len(errors) = N.
C1_CountsAddUp ==
  /\ total_checks = n_calls
  /\ (~Aborted /\ pc.stmt # "check_function")
       => success_count + Len(errors) = n_calls
  /\ (~Aborted /\ pc.stmt = "check_function")
       => success_count + Len(errors) = n_calls - 1

\* C2: when the check function raises an error, check_item returns False to
\* its caller (nothing is propagated), appends exactly one entry to errors,
\* "{description} - {message}", and leaves success_count unchanged.
C2_RaiseIsRecorded ==
  [][ (pc.stmt = "check_function" /\ call'.op = "check_item"
        /\ call'.outcome \in {"raise", "raise_unprintable",
                               "raise_unprintable_twice"})
      => /\ ret'.op = "check_item"
         /\ ret'.value = "False"
         /\ ret'.raised = "none"
         /\ pc'.stmt = "client"
         /\ Len(errors') = Len(errors) + 1
         /\ SubSeq(errors', 1, Len(errors)) = errors
         /\ call'.outcome = "raise"
              => errors' = Append(errors, call'.desc \o " - " \o call'.msg)
         /\ success_count' = success_count ]_vars

\* main has left run_all_checks with a return value.
Returned == success # "unset"

\* Nothing has happened in main since run_all_checks returned.
Undisturbed == ret.op = "run_all_checks"

\* C3: when run_all_checks completes, it returns True and the process exits
\* with code 0 if and only if errors is empty, whatever the warnings;
\* otherwise the process exits with code 1.
C3_ExitCodeIffNoErrors ==
  (Returned /\ pc.stmt = "exited")
    => /\ (success = "True") <=> (Len(errors) = 0)
       /\ (exit_code = 0) <=> (Len(errors) = 0)
       /\ (exit_code = 1) <=> (Len(errors) > 0)
       /\ summary.completed

\* C3, amended: when run_all_checks completes the summary has been printed
\* and it returns True if and only if errors is empty, whatever the
\* warnings.  The process exits with code 0 if and only if errors is empty
\* and the closing prints of main reach sys.exit; with errors recorded, or
\* when an error of those prints (os.getcwd) or a KeyboardInterrupt takes
\* main to an except clause, the sys.exit of main gives 1, and the process
\* never ends with status 0.
C3_ExitCodeAfterReturn ==
  Returned
    => /\ summary.completed
       /\ (success = "True") <=> (Len(errors) = 0)
       /\ pc.stmt = "exited"
            => /\ (exit_code = 0) <=> (Len(errors) = 0 /\ Undisturbed)
               /\ (exit_code = 1) <=> (Len(errors) > 0 \/ ~Undisturbed)
       /\ (Ended /\ exit_code = 0) => pc.stmt = "exited"
       /\ Undisturbed => pc.stmt \in {"exit", "exited"}

C3_Witness ==
  /\ Returned
  /\ pc.stmt = "exited"
  /\ call.op = "os.getcwd"
  /\ success = "True"
  /\ Len(warnings) = 1
  /\ Len(errors) = 0
  /\ exit_code = 1

\* C4: if any check of the fixed sequence of run_all_checks fails (returns
\* false or raises), the interpreter-version check included, the process
\* exits with code 1 and the failure is in the errors list that the summary
\* shows.
C4_AnyFailedCheckExitsOne ==
  (/\ Completed
   /\ \E i \in 1..Len(executed) : executed[i].result \in {"False", "raised"})
    => /\ exit_code = 1
       /\ summary.completed
       /\ Len(summary.errors_shown) > 0

\* C5: warn_item appends exactly one entry to warnings and leaves
\* success_count, total_checks and errors unchanged, wherever it is called
\* from: by the caller, by check_virtual_environment, or by a check function
\* that check_item is running.
C5_WarnItemFrame ==
  [][ /\ call'.op = "warn_item"
        => /\ warnings' = Append(warnings, call'.desc)
           /\ UNCHANGED <<errors, success_count, total_checks>>
      /\ (call'.op = "check_virtual_environment" /\ ~venv)
        => /\ warnings' = Append(warnings, VenvWarning)
           /\ UNCHANGED <<errors, success_count, total_checks>>
      /\ (call'.op \in {"warn_item", "check_virtual_environment"})
        => /\ Len(warnings') <= Len(warnings) + 1
           /\ UNCHANGED <<errors, success_count, total_checks>> ]_vars

C5_Witness ==
  /\ call.op = "warn_item"
  /\ call.at = "check_function"
  /\ pc.stmt = "check_function"
  /\ Len(warnings) = 2
  /\ total_checks >= 2
  /\ success_count >= 1
  /\ Len(errors) >= 1

\* C6: run_all_checks executes every check of the fixed sequence exactly
\* once and in the declared order whatever an earlier check returned or
\* raised; the summary is printed only after all of them, and no error of a
\* check ends the run early.
C6_AllChecksRunInOrder ==
  /\ IsPrefix(ExecutedNames, CheckOrder)
  /\ summary.called
       => /\ ExecutedNames = CheckOrder
          /\ \A i \in 1..Len(executed) : executed[i].result # "pending"
  /\ (Ended /\ ~Aborted /\ ~Interrupted)
       => /\ summary.completed
          /\ ExecutedNames = CheckOrder

\* C7: with total_checks > 0 print_summary prints exactly one tier message,
\* decided by success_rate = success_count / total_checks * 100 alone: the
\* top tier when the rate is at least 90, the middle tier when it is at
\* least 75 and below 90, the bottom tier otherwise.
C7_VerdictTiers ==
  (summary.completed /\ total_checks > 0)
    => LET s == success_count
           t == total_checks
       IN  /\ summary.successful = s
           /\ summary.total = t
           /\ Len(summary.verdicts) = 1
           /\ (summary.verdicts[1] = "EXCELLENT") <=> (100 * s >= 90 * t)
           /\ (summary.verdicts[1] = "GOOD")
                <=> (100 * s >= 75 * t /\ 100 * s < 90 * t)
           /\ (summary.verdicts[1] = "ATTENTION") <=> (100 * s < 75 * t)

C7_Witness ==
  /\ summary.completed
  /\ summary.successful = 9
  /\ summary.total = 10
  /\ summary.verdicts = <<"EXCELLENT">>

\* C8: print_summary called with total_checks = 0 reports a success rate of
\* 0% and completes without a division error.
C8_SummaryOfNoChecks ==
  (summary.called /\ total_checks = 0 /\ ret.op = "print_summary")
    => /\ summary.completed
       /\ summary.rate_printed
       /\ summary.successful = 0
       /\ summary.total = 0
       /\ ret.raised = "none"

\* How many checks have been invoked when main is at statement at, item k.
InvokedAt(at, k) ==
  CASE at = "check_python_version" -> 0
    [] at = "check_virtual_environment" -> 1
    [] at = "check_item" -> k + 1
    [] at = "check_function" -> k + 2

\* How many check_item calls have returned by then.
CompletedAt(at, k) ==
  IF at \in {"check_item", "check_function"} THEN k - 1 ELSE 0

\* After a KeyboardInterrupt in the check sequence: nothing of it in
\* errors, no check after it, no summary.
InterruptedRunStopped ==
  /\ pc.stmt \in {"except_KeyboardInterrupt", "exited", "uncaught"}
  /\ ~summary.called
  /\ Len(executed) = InvokedAt(call.at, call.k)
  /\ success_count + Len(errors) = CompletedAt(call.at, call.k)
  /\ total_checks = CompletedAt(call.at, call.k)
                      + (IF call.at = "check_function" THEN 1 ELSE 0)
  /\ \A i \in 1..Len(errors) :
       \E j \in 1..NumItems :
         /\ j < call.k
         /\ executed[j + 2].result \in {"False", "raised"}
         /\ errors[i] \in {Items[j].description}
                            \cup {Items[j].description \o " - " \o m : m \in ExcMessages}

\* C9: a KeyboardInterrupt at any point of the check sequence
\* aborts the run at once: check_item does not record it as an error of the
\* check, no later check executes, the summary is not printed and the
\* process exits with code 1.
C9_InterruptExitsOne ==
  (Interrupted /\ call.at \in CheckStatements)
    => /\ InterruptedRunStopped
       /\ Ended => exit_code = 1

\* C10: check_python_version returns True exactly when (major, minor) is at
\* least (3, 10) in version order (3.9 and 2.11 fail; 3.10, 3.12 and 4.0
\* pass), and it never raises.
C10_VersionOrder ==
  \A i \in 1..Len(executed) :
    executed[i].name = "check_python_version"
      => /\ ret.op = "check_python_version" => ret.raised = "none"
         /\ (executed[i].result = "True")
              <=> (version[1] > 3 \/ (version[1] = 3 /\ version[2] >= 10))

====
